---- MODULE Spec2Model ----
(***************************************************************************)
(* LambdaDB item store: the ingestion worker (ItemChanWorker) and the      *)
(* storage-format registry (saveAs*, loadAs*, loadAtStart) of store.go.    *)
(*                                                                         *)
(* An *Item is modelled as a record [ptr, Label, data]: ptr is the address *)
(* of the heap object (the worker compares addresses, and the JSON decoder *)
(* decodes into objects that already exist), Label and data are its        *)
(* content.  A file's bytes are modelled as a record [k, gz, items, maps]: *)
(* k is what the payload is, gz how it is wrapped in gzip.                 *)
(***************************************************************************)
EXTENDS Integers, Sequences, FiniteSets, TLC

(* ------------------------------ bounds --------------------------------- *)
MaxEntries == 2
MaxQueue == 1
MaxOps == 3
MaxTrips == 5

(* ---------------------------- value domains ---------------------------- *)
NIL == "nil"
Data == {"a", "b"}
Entry == Data \cup {NIL}

RECURSIVE SeqsUpTo(_, _)
SeqsUpTo(S, n) ==
    IF n = 0 THEN {<<>>}
    ELSE LET shorter == SeqsUpTo(S, n - 1)
         IN  shorter \cup {Append(s, x) : s \in {t \in shorter : Len(t) = n - 1}, x \in S}

Batches == SeqsUpTo(Entry, MaxEntries)

FILENAME == "db"
Registered == {"bytes", "bytesz", "json"}
Unregistered == {"csv"}
Names == Registered \cup Unregistered

VARIABLES
    ITEMS,      \* the process-wide collection: a sequence of [ptr, Label, data]
    maps,       \* the ModelMaps globals: the set of keys the index maps hold
    geoIdx,     \* the labels that have a geo-index entry
    itemChan,   \* the batches in the ingestion channel, oldest first
    worker,     \* ItemChanWorker: [pc, label, items, i]
    files,      \* the file system: filename -> bytes
    proc,       \* "up", "fatal" (log.Fatal) or "panic" (runtime panic)
    last,       \* the last call and what it returned
    pre,        \* ITEMS and maps as they were before the last call
    done,       \* the batch the worker took last, with the state it began from, as
                \* long as no save, load or restart has run since
    hist,       \* what this process has ingested (log), the non-nil entries sent on
                \* the channel (sent), and whether it has restored
    saved,      \* filename -> what the last save that wrote it snapshotted
    cnt,        \* counters that bound the model
    ws,         \* ItemChanWorker goroutines taken statement by statement:
                \* worker id -> [pc, label, items, i, small, rd, ok, ev]
    closed,     \* close(itemChan) has been called
    itemsCap,   \* cap(ITEMS): the size of the array the slice header points to
    snap        \* a makeStore() call that runs beside the worker

\* the state of the statement-level view of the worker
fine == <<ws, closed, itemsCap, snap>>

vars == <<ITEMS, maps, geoIdx, itemChan, worker, files, proc,
          last, pre, done, hist, saved, cnt, fine>>

(* ------------------------------ helpers -------------------------------- *)
Val(it) == [Label |-> it.Label, data |-> it.data]
Vals(items) == [i \in 1..Len(items) |-> Val(items[i])]
NonNil(items) == SelectSeq(items, LAMBDA e : e # NIL)

NoCall == [op |-> "none", fn |-> "none", name |-> "none", file |-> <<>>,
           n |-> 0, err |-> FALSE, fault |-> "none"]
NoBatch == [items |-> <<>>, len0 |-> 0, label0 |-> 0, len1 |-> 0, label1 |-> 0,
            stored |-> <<>>, valid |-> FALSE]

(* ---------------------------- ItemChanWorker --------------------------- *)
\* itm.Shrink(label): the compact record, a new object at address p
Shrink(itm, label, p) == [ptr |-> p, Label |-> label, data |-> itm]

\* ITEMS = append(ITEMS, &smallItem)
AppendItemBug(items, smallItem) == <<smallItem>> \o items
AppendItem(items, smallItem) == Append(items, smallItem)

\* label++ after a stored record
NextLabelBug(label) == label
NextLabel(label) == label + 1

\* if itm != nil
StoresBug(itm) == TRUE
Stores(itm) == itm # NIL

\* a receive of  range itemChan  on a channel that holds a batch: the oldest
\* batch is delivered and leaves the channel
ReceiveBug(ch) == [batch |-> Head(ch), rest |-> ch]
Receive(ch) == [batch |-> Head(ch), rest |-> Tail(ch)]

\* the outcome of ITEMS[label] != &smallItem on the collection after the append
SlotCheckBug(items, label, smallItem) == "ok"
SlotCheck(items, label, smallItem) ==
    IF label + 1 > Len(items) THEN "panic"
    ELSE IF items[label + 1].ptr # smallItem.ptr THEN "fatal"
    ELSE "ok"

(* ------------------------------- codecs -------------------------------- *)
\* bytes that are no encoding of a Store, and the zero-length byte string
Junk == [k |-> "junk", gz |-> 0, items |-> <<>>, maps |-> {}]
Empty == [k |-> "empty", gz |-> 0, items |-> <<>>, maps |-> {}]
EmptyStore == [Items |-> <<>>, Maps |-> {}]

\* the address of the i-th object allocated while the collection is live: the
\* i-th address that no object of the collection has
NewAddr(i) ==
    LET free == {a \in 1..(Len(ITEMS) + i) : \A j \in 1..Len(ITEMS) : ITEMS[j].ptr # a}
    IN  CHOOSE a \in free : Cardinality({b \in free : b < a}) = i - 1

\* the objects a decoder allocates for the records vs
Alloc(vs) ==
    [i \in 1..Len(vs) |-> [ptr |-> NewAddr(i), Label |-> vs[i].Label, data |-> vs[i].data]]

\* CreateMapstore(): the current index maps;  LoadMapstore(m): they become m
CreateMapstore == maps
LoadMapstore(m) == m

\* ITEMS.FillIndexes(): the indexes rebuilt from the records of the collection
FillIndexes(items) == {items[i].Label : i \in 1..Len(items)}

\* makeStore(): Store{ITEMS, CreateMapstore()}
makeStore == [Items |-> ITEMS, Maps |-> CreateMapstore]

\* EncodeItems(s): gob of the store.  The encoder's error branch (printed, the
\* buffer returned as it is) is not taken for a Store of non-nil records, which
\* is all the collection ever holds here; gob flattens the pointers
EncodeItems(s) ==
    [k |-> "gob", gz |-> 0, items |-> Vals(s.Items), maps |-> s.Maps]

\* json.Marshal(store)
JsonMarshal(s) ==
    [k |-> "json", gz |-> 0, items |-> Vals(s.Items), maps |-> s.Maps]

\* Compress(s): a complete gzip stream around s
Compress(s) == [s EXCEPT !.gz = 1]

\* Decompress(s): gzip.NewReader's error is dropped, so bytes without a gzip
\* header leave a nil reader and ReadAll panics; a stream cut in its body gives
\* an error that is printed and the bytes read so far
Decompress(s) ==
    IF s.gz = 1 THEN [panic |-> FALSE, data |-> [s EXCEPT !.gz = 0]]
    ELSE IF s.gz = 2 THEN [panic |-> FALSE, data |-> Junk]
    ELSE [panic |-> TRUE, data |-> Empty]

\* DecodeToStore(s): gob into a new Store{}; a decoder error is printed and the
\* store, still empty, is returned
DecodeToStoreBug(s) ==
    IF s.k = "gob" /\ s.gz = 0
    THEN [Items |-> Alloc([i \in 1..Len(s.items) |-> s.items[Len(s.items) + 1 - i]]),
          Maps |-> s.maps]
    ELSE EmptyStore
DecodeToStore(s) ==
    IF s.k = "gob" /\ s.gz = 0
    THEN [Items |-> Alloc(s.items), Maps |-> s.maps]
    ELSE EmptyStore

\* json.Unmarshal(s, &store), its error dropped: a slice is decoded element by
\* element into the objects it already points to and cut or grown to the
\* array's length; a map keeps the entries it has (a JSON object, even an
\* empty one, is decoded into the map that is there); bytes that are no JSON
\* leave the store as it was
JsonUnmarshal(s, store) ==
    IF s.k = "json" /\ s.gz = 0
    THEN [Items |-> [i \in 1..Len(s.items) |->
                       [ptr |-> IF i <= Len(store.Items) THEN store.Items[i].ptr
                                ELSE NewAddr(i - Len(store.Items)),
                        Label |-> s.items[i].Label, data |-> s.items[i].data]],
          Maps |-> store.Maps \cup s.maps]
    ELSE store

\* fi.Size() of a file holding the bytes c
Size(c) ==
    (IF c.k \in {"none", "empty"} THEN 0
     ELSE IF c.k = "junk" THEN 1
     ELSE 2 + 2 * Len(c.items) + Cardinality(c.maps))
    + c.gz

(* ------------------------------ file system ---------------------------- *)
\* what the file system does to a write: os.Create fails, or f.Write stops early
Faults == {"none", "create", "write"}

\* what a write that stops early leaves in the file: bytes that are no
\* encoding, inside a gzip header when the stream got that far
Truncated(s) ==
    IF s.k = "empty" /\ s.gz = 0 THEN s
    ELSE IF s.gz = 1 THEN [Junk EXCEPT !.gz = 2] ELSE Junk

\* os.Create(filename) then f.Write(s): the file afterwards
Written(s, filename, fault) ==
    IF fault = "create" THEN files[filename]
    ELSE IF fault = "write" THEN Truncated(s)
    ELSE s

\* ReadFromFile(filename): a failed open is printed and nothing is read
ReadFromFile(filename) ==
    IF files[filename].k = "none" THEN Empty ELSE files[filename]

(* ------------------------------- Init ---------------------------------- *)
FileNames == {<<FILENAME, e>> : e \in Names}
NoFile == [k |-> "none", gz |-> 0, items |-> <<>>, maps |-> {}]
NoSnap == [ok |-> FALSE, fn |-> "none", items |-> <<>>, maps |-> {}, log |-> <<>>,
           pure |-> FALSE, dirty |-> FALSE]
\* the worker has taken a step since the snapshots on file were written
Dirtied == [f \in FileNames |-> [saved[f] EXCEPT !.dirty = saved[f].ok]]
NoPre == [items |-> <<>>, maps |-> {}]
WorkerOff == [pc |-> "off", label |-> 0, items |-> <<>>, i |-> 0]

\* the goroutines that may run ItemChanWorker, and one that has not started
WorkerIds == {1, 2}
NoItem == [ptr |-> 0, Label |-> 0, data |-> NIL]
NoRead == [items |-> <<>>, cap |-> 0]
StepOff == [pc |-> "off", label |-> 0, items |-> <<>>, i |-> 0, small |-> NoItem,
            rd |-> NoRead, ok |-> <<>>, ev |-> <<>>]
\* no makeStore() call is running beside the worker
NoSnapshot == [pc |-> "idle", first |-> "none", ptr |-> 0, len |-> 0, Items |-> <<>>]

\* func init(): ITEMS = Items{}; the index maps and the channel start empty
Init ==
    /\ ITEMS = <<>>
    /\ maps = {}
    /\ geoIdx = {}
    /\ itemChan = <<>>
    /\ worker = WorkerOff
    /\ files = [f \in FileNames |-> NoFile]
    /\ proc = "up"
    /\ last = NoCall
    /\ pre = NoPre
    /\ done = NoBatch
    /\ hist = [log |-> <<>>, restored |-> FALSE, sent |-> <<>>]
    /\ saved = [f \in FileNames |-> NoSnap]
    /\ cnt = [enq |-> 0, ops |-> 0]
    /\ ws = [w \in WorkerIds |-> StepOff]
    /\ closed = FALSE
    /\ itemsCap = 0
    /\ snap = NoSnapshot

(* ------------------------------ ingestion ------------------------------ *)
\* a producer sends one batch on the channel
Enqueue ==
    /\ proc = "up"
    /\ ~closed
    /\ Len(itemChan) < MaxQueue
    /\ \E b \in Batches :
          /\ cnt.enq + Len(b) <= MaxEntries
          /\ itemChan' = Append(itemChan, b)
          /\ cnt' = [cnt EXCEPT !.enq = @ + Len(b)]
          /\ hist' = [hist EXCEPT !.sent = @ \o NonNil(b)]
    /\ last' = NoCall
    /\ pre' = NoPre
    /\ UNCHANGED <<ITEMS, maps, geoIdx, worker, files, proc, done, saved, fine>>

\* go ItemChanWorker(itemChan): label := 0
StartWorker ==
    /\ proc = "up"
    /\ worker.pc = "off"
    /\ worker' = [pc |-> "recv", label |-> 0, items |-> <<>>, i |-> 0]
    /\ last' = NoCall
    /\ pre' = NoPre
    /\ UNCHANGED <<ITEMS, maps, geoIdx, itemChan, files, proc, done, hist,
                   saved, cnt, fine>>

\* for items := range itemChan: the worker takes the oldest batch
WorkerRecv ==
    /\ proc = "up"
    /\ worker.pc = "recv"
    /\ itemChan # <<>>
    /\ LET b == Receive(itemChan).batch
       IN  /\ worker' = IF b = <<>> THEN worker
                        ELSE [worker EXCEPT !.pc = "batch", !.items = b, !.i = 1]
           /\ done' = [items |-> b, len0 |-> Len(ITEMS), label0 |-> worker.label,
                       len1 |-> Len(ITEMS), label1 |-> worker.label,
                       stored |-> <<>>, valid |-> (b = <<>>)]
    /\ itemChan' = Receive(itemChan).rest
    /\ last' = NoCall
    /\ pre' = NoPre
    /\ saved' = Dirtied
    /\ UNCHANGED <<ITEMS, maps, geoIdx, files, proc, hist, cnt, fine>>

\* one iteration of  for _, itm := range items  (lines 26-38)
WorkerItem ==
    /\ proc = "up"
    /\ worker.pc = "batch"
    /\ LET itm == worker.items[worker.i]
           lastOne == worker.i = Len(worker.items)
           smallItem == Shrink(itm, worker.label, NewAddr(1))
           appended == AppendItem(ITEMS, smallItem)
           check == SlotCheck(appended, worker.label, smallItem)
           label1 == IF Stores(itm) /\ check = "ok" THEN NextLabel(worker.label)
                     ELSE worker.label
       IN  /\ IF Stores(itm)
              THEN /\ ITEMS' = appended
                   /\ maps' = maps \cup {itm}
                   /\ proc' = IF check = "ok" THEN "up" ELSE check
                   /\ geoIdx' = IF check = "ok" THEN geoIdx \cup {worker.label} ELSE geoIdx
                   /\ hist' = [hist EXCEPT !.log = Append(@, smallItem)]
              ELSE UNCHANGED <<ITEMS, maps, proc, geoIdx, hist>>
           /\ worker' = IF Stores(itm) /\ check # "ok" THEN worker
                        ELSE IF lastOne
                             THEN [worker EXCEPT !.pc = "recv", !.label = label1]
                             ELSE [worker EXCEPT !.i = @ + 1, !.label = label1]
           /\ done' = [done EXCEPT
                         !.len1 = Len(ITEMS'),
                         !.label1 = label1,
                         !.stored = IF Stores(itm) THEN Append(@, smallItem) ELSE @,
                         !.valid = lastOne /\ (Stores(itm) => check = "ok")]
    /\ last' = NoCall
    /\ pre' = NoPre
    /\ saved' = Dirtied
    /\ UNCHANGED <<itemChan, files, cnt, fine>>

NextIngest == Enqueue \/ StartWorker \/ WorkerRecv \/ WorkerItem

\* one worker on an empty collection, producers, and nothing else
SpecIngest == Init /\ [][NextIngest]_vars

(* --------------------------- storage registry -------------------------- *)
\* each save function: the file it leaves and what it returns
saveAsBytes(filename, fault) ==
    LET data == EncodeItems(makeStore)
        after == Written(data, filename, fault)
    IN  \* os.Stat(filename) fails only when there is no such file
        [file |-> after,
         n |-> IF after.k = "none" THEN 0 ELSE Size(after),
         err |-> after.k = "none"]

saveAsBytesCompressed(filename, fault) ==
    LET data == Compress(EncodeItems(makeStore))
        after == Written(data, filename, fault)
    IN  [file |-> after,
         n |-> IF after.k = "none" THEN 0 ELSE Size(after),
         err |-> after.k = "none"]

saveAsJsonZipped(filename, fault) ==
    LET b == Compress(JsonMarshal(makeStore))
        after == Written(b, filename, fault)
    IN  \* ioutil.WriteFile's error is returned
        IF fault # "none" THEN [file |-> after, n |-> 0, err |-> TRUE]
        ELSE [file |-> after, n |-> Size(after), err |-> FALSE]

STORAGEFUNCS(name, filename, fault) ==
    CASE name = "bytes" -> saveAsBytes(filename, fault)
      [] name = "bytesz" -> saveAsBytesCompressed(filename, fault)
      [] name = "json" -> saveAsJsonZipped(filename, fault)

\* each load function: whether it panics, the error it returns, and the store
\* it hands to restoreStore when it gets that far
NoRestore(panic, err) ==
    [panic |-> panic, err |-> err, restores |-> FALSE, store |-> EmptyStore]

loadAsBytes(filename) ==
    LET d == ReadFromFile(filename)
    IN  [panic |-> FALSE, err |-> FALSE, restores |-> TRUE,
         store |-> DecodeToStore(d)]

loadAsBytesCompressed(filename) ==
    LET d == Decompress(ReadFromFile(filename))
    IN  IF d.panic THEN NoRestore(TRUE, FALSE)
        ELSE [panic |-> FALSE, err |-> FALSE, restores |-> TRUE,
              store |-> DecodeToStore(d.data)]

loadAsJsonZipped(filename) ==
    LET fi == files[filename]
    IN  IF fi.k = "none" THEN NoRestore(FALSE, TRUE)        \* os.Open
        ELSE IF fi.gz = 0 THEN NoRestore(FALSE, TRUE)       \* gzip.NewReader
        ELSE IF fi.gz = 2 THEN NoRestore(FALSE, TRUE)       \* ioutil.ReadAll
        ELSE [panic |-> FALSE, err |-> FALSE, restores |-> TRUE,
              store |-> JsonUnmarshal([fi EXCEPT !.gz = 0], makeStore)]

RETRIEVEFUNCS(name, filename) ==
    CASE name = "bytes" -> loadAsBytes(filename)
      [] name = "bytesz" -> loadAsBytesCompressed(filename)
      [] name = "json" -> loadAsJsonZipped(filename)

\* restoreStore(store): ITEMS = store.Items; LoadMapstore(store.Maps);
\* ITEMS.FillIndexes(), which reads the collection as the first statement left it
restoreStoreBug(store) ==
    /\ geoIdx' = FillIndexes(ITEMS)
    /\ ITEMS' = store.Items
    /\ maps' = LoadMapstore(store.Maps)
restoreStore(store) ==
    /\ ITEMS' = store.Items
    /\ maps' = LoadMapstore(store.Maps)
    /\ geoIdx' = FillIndexes(ITEMS')

\* a call of the load function registered as fn on filename, made by op
Retrieve(op, name, fn, filename) ==
    LET r == RETRIEVEFUNCS(fn, filename)
    IN  /\ IF r.restores
           THEN restoreStore(r.store)
           ELSE UNCHANGED <<ITEMS, maps, geoIdx>>
        /\ proc' = IF r.panic THEN "panic"
                   ELSE IF op = "loadAtStart" /\ r.err THEN "fatal"
                   ELSE "up"
        /\ last' = [NoCall EXCEPT !.op = op, !.fn = fn, !.name = name,
                                  !.file = filename, !.err = r.err,
                                  !.n = IF r.restores THEN Len(r.store.Items) ELSE 0]
        /\ pre' = [items |-> ITEMS, maps |-> maps]
        /\ hist' = [hist EXCEPT !.restored = @ \/ r.restores]
        /\ cnt' = [cnt EXCEPT !.ops = @ + 1]
        /\ done' = NoBatch
        /\ UNCHANGED <<itemChan, worker, files, saved, fine>>

\* a save function called directly on the file of its format, under one of faults
SaveCall(faults) ==
    /\ proc = "up"
    /\ \E fn \in Registered, fault \in faults :
          LET filename == <<FILENAME, fn>>
              r == STORAGEFUNCS(fn, filename, fault)
          IN  /\ files' = [files EXCEPT ![filename] = r.file]
              /\ last' = [NoCall EXCEPT !.op = "save", !.fn = fn, !.file = filename,
                                        !.n = r.n, !.err = r.err,
                                        !.fault = fault]
              /\ saved' = [saved EXCEPT ![filename] =
                             IF fault = "create" THEN @
                             ELSE IF fault = "none"
                             THEN [ok |-> TRUE, fn |-> fn, items |-> Vals(ITEMS),
                                   maps |-> maps, log |-> Vals(hist.log),
                                   pure |-> ~hist.restored, dirty |-> FALSE]
                             ELSE NoSnap]
    /\ pre' = NoPre
    /\ done' = NoBatch
    /\ cnt' = [cnt EXCEPT !.ops = @ + 1]
    /\ UNCHANGED <<ITEMS, maps, geoIdx, itemChan, worker, proc, hist, fine>>

\* a load function called directly on the file of its format
LoadCall ==
    /\ proc = "up"
    /\ \E fn \in Registered :
          Retrieve("load", fn, fn, <<FILENAME, fn>>)


\* loadAtStart(storagename, filename, indexed), before the worker is started
loadAtStart ==
    /\ proc = "up"
    /\ worker.pc = "off"
    /\ cnt.ops < MaxOps
    /\ \E storagename \in Names :
          LET found == storagename \in Registered
              \* the branch's  storagename := "bytes"  declares a new variable
              retrievefunc == IF found THEN storagename ELSE "bytes"
              filename == <<FILENAME, storagename>>
          IN  Retrieve("loadAtStart", storagename, retrievefunc, filename)

\* the process ends and is started again: memory is new, files stay
RestartCall ==
    /\ ITEMS' = <<>>
    /\ maps' = {}
    /\ geoIdx' = {}
    /\ itemChan' = <<>>
    /\ worker' = WorkerOff
    /\ proc' = "up"
    /\ last' = NoCall
    /\ pre' = NoPre
    /\ done' = NoBatch
    /\ hist' = [log |-> <<>>, restored |-> FALSE, sent |-> <<>>]
    /\ cnt' = [cnt EXCEPT !.ops = @ + 1]
    /\ UNCHANGED <<files, saved, fine>>

Save == cnt.ops < MaxOps /\ SaveCall(Faults)
Load == cnt.ops < MaxOps /\ LoadCall
Restart == cnt.ops < MaxOps /\ RestartCall


Next ==
    \/ Enqueue \/ StartWorker \/ WorkerRecv \/ WorkerItem
    \/ Save \/ Load \/ loadAtStart \/ Restart

\* every call may fall between any two steps of the worker
Spec == Init /\ [][Next]_vars

\* the worker is between batches and the channel is empty
Quiet == worker.pc # "batch" /\ itemChan = <<>>

\* the calls as section 5 of the design expects them: serialized by the caller
\* against ingestion
SaveQuiet == Quiet /\ Save
LoadQuiet == Quiet /\ Load
BootQuiet == Quiet /\ loadAtStart
RestartQuiet == Quiet /\ Restart

NextSerial ==
    \/ Enqueue \/ StartWorker \/ WorkerRecv \/ WorkerItem
    \/ SaveQuiet \/ LoadQuiet \/ BootQuiet \/ RestartQuiet

\* ingestion, and saves, loads and restarts only while the worker is idle
SpecSerial == Init /\ [][NextSerial]_vars

\* the same serialized calls where nothing fails in the file system
SaveOk == Quiet /\ cnt.ops < MaxTrips /\ SaveCall({"none"})
LoadBack == Quiet /\ cnt.ops < MaxTrips /\ LoadCall
RestartOk == Quiet /\ cnt.ops < MaxTrips /\ RestartCall

NextTrips ==
    \/ Enqueue \/ StartWorker \/ WorkerRecv \/ WorkerItem
    \/ SaveOk \/ LoadBack \/ RestartOk

\* ingestion, and saves and loads without faults and restarts while the worker
\* is idle
SpecTrips == Init /\ [][NextTrips]_vars

(* ------------------- the worker, statement by statement ----------------- *)
\* what these steps leave alone: the atomic view of the worker and the registry
coarse == <<worker, files, last, pre, done, saved>>

\* the statements of the body of  if itm != nil  (lines 28-36), each named by the
\* statement that runs next: which one follows which
StepAfterBug(pc) ==
    CASE pc = "item" -> "bits"
      [] pc = "bits" -> "read"
      [] pc = "read" -> "write"
      [] pc = "write" -> "geo"
      [] pc = "geo" -> "check"
      [] pc = "check" -> "inc"
      [] pc = "inc" -> "item"
StepAfter(pc) ==
    CASE pc = "item" -> "bits"
      [] pc = "bits" -> "read"
      [] pc = "read" -> "write"
      [] pc = "write" -> "check"
      [] pc = "check" -> "geo"
      [] pc = "geo" -> "inc"
      [] pc = "inc" -> "item"

\* range itemChan ends: the channel is closed and holds no batch
RangeEndsBug(ch, cl) == cl
RangeEnds(ch, cl) == cl /\ ch = <<>>

\* the records goroutine w has declared (one smallItem per non-nil entry)
Declared(w) ==
    ws[w].label + (IF ws[w].pc \in {"bits", "read", "write", "check", "geo", "inc"}
                   THEN 1 ELSE 0)

\* the address of a smallItem declared now: one no other object has
FreshAddr == 1 + Declared(1) + Declared(2)

\* cap of the slice append returns for a slice of capacity c that must hold n
\* entries (runtime.growslice, pointer-sized entries, c < 256)
GrowCap(c, n) == IF n <= c THEN c ELSE IF n > 2 * c THEN n ELSE 2 * c

\* close(itemChan)
Close ==
    /\ proc = "up"
    /\ ~closed
    /\ closed' = TRUE
    /\ UNCHANGED <<ITEMS, maps, geoIdx, itemChan, proc, hist, cnt, ws, itemsCap,
                   snap, coarse>>

\* go ItemChanWorker(itemChan): label := 0
WStart(w) ==
    /\ proc = "up"
    /\ ws[w].pc = "off"
    /\ ws' = [ws EXCEPT ![w].pc = "recv"]
    /\ UNCHANGED <<ITEMS, maps, geoIdx, itemChan, proc, hist, cnt, closed,
                   itemsCap, snap, coarse>>

\* for items := range itemChan: a batch is received
WRecv(w) ==
    /\ proc = "up"
    /\ ws[w].pc = "recv"
    /\ itemChan # <<>>
    /\ ws' = [ws EXCEPT ![w].pc = "item", ![w].items = Receive(itemChan).batch,
                        ![w].i = 1]
    /\ itemChan' = Receive(itemChan).rest
    /\ UNCHANGED <<ITEMS, maps, geoIdx, proc, hist, cnt, closed, itemsCap, snap,
                   coarse>>

\* for items := range itemChan: the range ends and ItemChanWorker returns
WReturn(w) ==
    /\ proc = "up"
    /\ ws[w].pc = "recv"
    /\ RangeEnds(itemChan, closed)
    /\ ws' = [ws EXCEPT ![w].pc = "done"]
    /\ UNCHANGED <<ITEMS, maps, geoIdx, itemChan, proc, hist, cnt, closed,
                   itemsCap, snap, coarse>>

\* for _, itm := range items; if itm != nil; smallItem := itm.Shrink(label)
WNext(w) ==
    /\ proc = "up"
    /\ ws[w].pc = "item"
    /\ ws' = IF ws[w].i > Len(ws[w].items)
             THEN [ws EXCEPT ![w].pc = "recv", ![w].items = <<>>, ![w].i = 0]
             ELSE IF ~Stores(ws[w].items[ws[w].i])
             THEN [ws EXCEPT ![w].i = @ + 1]
             ELSE [ws EXCEPT ![w].pc = StepAfter("item"),
                             ![w].small = Shrink(ws[w].items[ws[w].i], ws[w].label,
                                                 FreshAddr)]
    /\ UNCHANGED <<ITEMS, maps, geoIdx, itemChan, proc, hist, cnt, closed,
                   itemsCap, snap, coarse>>

\* smallItem.StoreBitArrayColumns()
WBits(w) ==
    /\ proc = "up"
    /\ ws[w].pc = "bits"
    /\ maps' = maps \cup {ws[w].small.data}
    /\ ws' = [ws EXCEPT ![w].pc = StepAfter("bits"),
                        ![w].ev = Append(@, <<"bits", ws[w].label>>)]
    /\ UNCHANGED <<ITEMS, geoIdx, itemChan, proc, hist, cnt, closed, itemsCap,
                   snap, coarse>>

\* ITEMS = append(ITEMS, &smallItem): the read of ITEMS
WRead(w) ==
    /\ proc = "up"
    /\ ws[w].pc = "read"
    /\ ws' = [ws EXCEPT ![w].pc = StepAfter("read"),
                        ![w].rd = [items |-> ITEMS, cap |-> itemsCap]]
    /\ UNCHANGED <<ITEMS, maps, geoIdx, itemChan, proc, hist, cnt, closed,
                   itemsCap, snap, coarse>>

\* ITEMS = append(ITEMS, &smallItem): the slice append returns is stored
WWrite(w) ==
    /\ proc = "up"
    /\ ws[w].pc = "write"
    /\ ITEMS' = AppendItem(ws[w].rd.items, ws[w].small)
    /\ itemsCap' = GrowCap(ws[w].rd.cap, Len(ws[w].rd.items) + 1)
    /\ hist' = [hist EXCEPT !.log = Append(@, ws[w].small)]
    /\ ws' = [ws EXCEPT ![w].pc = StepAfter("write"), ![w].rd = NoRead,
                        ![w].ev = Append(@, <<"append", ws[w].label>>)]
    /\ UNCHANGED <<maps, geoIdx, itemChan, proc, cnt, closed, snap, coarse>>

\* if ITEMS[label] != &smallItem { log.Fatal }
WCheck(w) ==
    /\ proc = "up"
    /\ ws[w].pc = "check"
    /\ LET check == SlotCheck(ITEMS, ws[w].label, ws[w].small)
       IN  /\ proc' = IF check = "ok" THEN "up" ELSE check
           /\ ws' = IF check = "ok"
                    THEN [ws EXCEPT ![w].pc = StepAfter("check"),
                                    ![w].ok = Append(@, ws[w].small),
                                    ![w].ev = Append(@, <<"check", ws[w].label>>)]
                    ELSE [ws EXCEPT ![w].ev = Append(@, <<"failed", ws[w].label>>)]
    /\ UNCHANGED <<ITEMS, maps, geoIdx, itemChan, hist, cnt, closed, itemsCap,
                   snap, coarse>>

\* smallItem.GeoIndex(label)
WGeo(w) ==
    /\ proc = "up"
    /\ ws[w].pc = "geo"
    /\ geoIdx' = geoIdx \cup {ws[w].label}
    /\ ws' = [ws EXCEPT ![w].pc = StepAfter("geo"),
                        ![w].ev = Append(@, <<"geo", ws[w].label>>)]
    /\ UNCHANGED <<ITEMS, maps, itemChan, proc, hist, cnt, closed, itemsCap,
                   snap, coarse>>

\* label++, and the range over items moves on
WInc(w) ==
    /\ proc = "up"
    /\ ws[w].pc = "inc"
    /\ ws' = [ws EXCEPT ![w].pc = StepAfter("inc"), ![w].small = NoItem,
                        ![w].i = @ + 1,
                        ![w].ev = Append(@, <<"inc", ws[w].label>>),
                        ![w].label = NextLabel(@)]
    /\ UNCHANGED <<ITEMS, maps, geoIdx, itemChan, proc, hist, cnt, closed,
                   itemsCap, snap, coarse>>

WorkerStep(w) ==
    \/ WStart(w) \/ WRecv(w) \/ WReturn(w) \/ WNext(w) \/ WBits(w)
    \/ WRead(w) \/ WWrite(w) \/ WCheck(w) \/ WGeo(w) \/ WInc(w)

\* two goroutines run ItemChanWorker on the same channel
NextTwo == Enqueue \/ Close \/ \E w \in WorkerIds : WorkerStep(w)
SpecTwo == Init /\ [][NextTwo]_vars

(* ------------------- makeStore() beside the worker ---------------------- *)
\* what a read past the end of an array finds: no record of the collection
Garbage == [ptr |-> 0, Label |-> -1, data |-> "?"]

\* the records a slice header leads to when its pointer is to the array of
\* capacity c and its length is n.  The worker only appends, so cell i of any
\* array it has used holds the collection's i-th record; an array that append
\* has left behind was full, and a cell past its end belongs to something else
Deref(c, n) == [i \in 1..n |-> IF i <= c THEN ITEMS[i] ELSE Garbage]

\* Store{ITEMS, ...} copies the slice header of ITEMS word by word, with no
\* synchronisation with the worker: the first word read (array identity, given
\* here by its capacity, or length)
SnapFirst ==
    /\ proc = "up"
    /\ snap.pc \in {"idle", "done"}
    /\ \E f \in {"ptr", "len"} :
          snap' = [pc |-> "half", first |-> f,
                   ptr |-> IF f = "ptr" THEN itemsCap ELSE 0,
                   len |-> IF f = "len" THEN Len(ITEMS) ELSE 0,
                   Items |-> <<>>]
    /\ UNCHANGED <<ITEMS, maps, geoIdx, itemChan, proc, hist, cnt, ws, closed,
                   itemsCap, coarse>>

\* the other word is read, and makeStore returns the Store
SnapSecond ==
    /\ proc = "up"
    /\ snap.pc = "half"
    /\ LET c == IF snap.first = "ptr" THEN snap.ptr ELSE itemsCap
           n == IF snap.first = "len" THEN snap.len ELSE Len(ITEMS)
       IN  snap' = [pc |-> "done", first |-> snap.first, ptr |-> c, len |-> n,
                    Items |-> Deref(c, n)]
    /\ UNCHANGED <<ITEMS, maps, geoIdx, itemChan, proc, hist, cnt, ws, closed,
                   itemsCap, coarse>>

\* one worker, statement by statement, producers, and makeStore calls
NextSteps == Enqueue \/ Close \/ WorkerStep(1) \/ SnapFirst \/ SnapSecond
SpecSteps == Init /\ [][NextSteps]_vars

\* one worker, statement by statement, with producers that may close the
\* channel; the scheduler runs a goroutine that can take a step
NextClose == Enqueue \/ Close \/ WorkerStep(1)
SpecClose == Init /\ [][NextClose]_vars /\ WF_vars(WorkerStep(1))

(* ============================== the claims ============================== *)

\* C1 (label/slot invariant): with one worker started on the empty collection
\* and no restore, the collection is as long as the worker's label counter and
\* for every label L below the counter the entry at index L is the very record
\* that was given label L, and it carries label L.
C1_LabelSlot ==
    worker.pc # "off" =>
        /\ Len(ITEMS) = worker.label
        /\ Len(hist.log) = worker.label
        /\ \A L \in 0..(worker.label - 1) :
              /\ ITEMS[L + 1] = hist.log[L + 1]
              /\ ITEMS[L + 1].Label = L

\* the worker has stored two different records and waits for the next batch
C1_Witness ==
    /\ worker.pc = "recv"
    /\ worker.label = 2
    /\ Len(ITEMS) = 2
    /\ ITEMS[2].Label = 1
    /\ ITEMS[1].data # ITEMS[2].data

\* C2 (skip semantics): a finished batch with K non-nil entries has made the
\* collection and the label counter each K larger, whatever nil entries it
\* holds; no error was raised, and the K records stored are the batch's
\* non-nil entries in the batch's order, labelled consecutively.
C2_Skip ==
    done.valid =>
        LET kept == NonNil(done.items)
            K == Len(kept)
        IN  /\ proc = "up"
            /\ Len(ITEMS) = done.len0 + K
            /\ worker.label = done.label0 + K
            /\ done.len1 = done.len0 + K
            /\ done.label1 = done.label0 + K
            /\ \A j \in 1..K :
                  /\ ITEMS[done.len0 + j].data = kept[j]
                  /\ ITEMS[done.len0 + j].Label = done.label0 + j - 1

\* a batch whose first entry is nil and whose second is a record was finished
C2_Witness ==
    /\ done.valid
    /\ Len(done.items) = 2
    /\ done.items[1] = NIL
    /\ done.items[2] # NIL
    /\ Len(ITEMS) = done.len0 + 1
    /\ worker.label = 1

\* the file of the last call holds, whole, what the save function of the same
\* format wrote (it exists and can be decompressed and decoded)
LastFileIntact == saved[last.file].ok /\ saved[last.file].fn = last.fn
LastWasLoad == last.op \in {"load", "loadAtStart"}

\* C3 (restore replaces, not merges): after any of the three load functions
\* has loaded an intact file (here one that holds at least one item and one
\* map entry) while the collection and the index maps were non-empty, memory
\* holds exactly the file's items and the file's maps.
C3_RestoreReplaces ==
    (/\ LastWasLoad
     /\ LastFileIntact
     /\ files[last.file].items # <<>>
     /\ files[last.file].maps # {}
     /\ pre.items # <<>>
     /\ pre.maps # {}) =>
        /\ Vals(ITEMS) = files[last.file].items
        /\ maps = files[last.file].maps

\* C4 (fallback): loadAtStart with an unregistered format name calls the
\* "bytes" load function, and calls it with the filename <base>.bytes.
C4_Fallback ==
    (last.op = "loadAtStart" /\ last.name \notin Registered) =>
        /\ last.fn = "bytes"
        /\ last.file = <<FILENAME, "bytes">>

\* C5 (fatal on bootstrap failure): when loadAtStart's file is missing or is
\* not an intact file of the format, the process has terminated; loadAtStart
\* has not returned normally.
C5_FatalOnBootstrapFailure ==
    (last.op = "loadAtStart" /\ ~LastFileIntact) => proc # "up"

\* C6 (save is all-or-nothing): a save either returns a nil error and the size
\* of a file that holds the complete encoding of the current snapshot, no
\* encoding, create or write failure having happened, or returns 0 and an error.
C6_SaveAllOrNothing ==
    last.op = "save" =>
        IF last.err THEN last.n = 0
        ELSE /\ last.fault = "none"
             /\ last.n = Size(files[last.file])
             /\ files[last.file].k \in {"gob", "json"}
             /\ files[last.file].gz # 2
             /\ files[last.file].items = Vals(ITEMS)
             /\ files[last.file].maps = maps

\* C7 (a failed load leaves prior state untouched): when the file could not be
\* read, decompressed or decoded, the collection and the index maps are what
\* they were before the call.
C7_FailedLoadFrame ==
    (LastWasLoad /\ ~LastFileIntact) =>
        /\ ITEMS = pre.items
        /\ maps = pre.maps

\* C8 (ad hoc load errors are values): a load function called directly that
\* returns, returns an error whenever its file could not be opened, read,
\* decompressed or decoded.
C8_LoadErrorsAreValues ==
    (last.op = "load" /\ proc = "up" /\ ~LastFileIntact) => last.err

\* C9 (round trip): loading with F's load function the file F's save function
\* wrote, with no ingestion between the two calls, gives a collection with the
\* saved records in the saved order and index maps with the saved content,
\* whatever memory held when the load began (stated for snapshots that hold
\* at least one item and one map entry).
C9_RoundTrip ==
    (/\ last.op = "load"
     /\ LastFileIntact
     /\ saved[last.file].items # <<>>
     /\ saved[last.file].maps # {}
     /\ ~saved[last.file].dirty) =>
        /\ Vals(ITEMS) = saved[last.file].items
        /\ maps = saved[last.file].maps

\* C10 (the label/slot identity survives persistence): after a load, into an
\* empty memory, of an intact file saved by a process that had only ingested,
\* the collection is as long as the saved one, the record at each index L is
\* the record given label L at ingestion and carries label L, and the rebuilt
\* index resolves exactly the labels 0 .. length-1.
C10_IdentitySurvives ==
    (/\ LastWasLoad
     /\ LastFileIntact
     /\ saved[last.file].pure
     /\ pre.items = <<>>
     /\ pre.maps = {}) =>
        LET log == saved[last.file].log
        IN  /\ proc = "up"
            /\ Len(ITEMS) = Len(log)
            /\ \A L \in 0..(Len(log) - 1) :
                  /\ ITEMS[L + 1].Label = L
                  /\ ITEMS[L + 1].data = log[L + 1].data
            /\ geoIdx = 0..(Len(ITEMS) - 1)
            /\ maps = saved[last.file].maps

\* two records were ingested and saved as bytesz by a process that had only
\* ingested, the process was restarted, and the file was loaded
C10_Witness ==
    /\ last.op = "load"
    /\ last.fn = "bytesz"
    /\ LastFileIntact
    /\ saved[last.file].pure
    /\ hist.log = <<>>
    /\ Len(saved[last.file].log) = 2
    /\ Len(ITEMS) = 2
    /\ ITEMS[1].data # ITEMS[2].data
    /\ geoIdx = {0, 1}

\* C11 (ingestion is append-only): every step leaves each existing entry of the
\* collection at its index and never shortens the collection; a step that
\* stores a record stores exactly one, gives it the label equal to the number
\* of labels given so far (0, 1, 2, ... without gap or repeat) and advances the
\* counter by one; no other step moves the counter, a batch boundary included.
C11_AppendOnly ==
    [][/\ Len(ITEMS') >= Len(ITEMS)
       /\ Len(ITEMS') <= Len(ITEMS) + 1
       /\ \A i \in 1..Len(ITEMS) : ITEMS'[i] = ITEMS[i]
       /\ IF Len(ITEMS') = Len(ITEMS) + 1
          THEN /\ worker.label = Len(hist.log)
               /\ ITEMS'[Len(ITEMS')].Label = worker.label
               /\ worker'.label = worker.label + 1
          ELSE worker'.label = worker.label]_vars

\* the worker has finished a second batch, whose record got the label after the
\* one the first batch's record got
C11_Witness ==
    /\ done.valid
    /\ done.label0 = 1
    /\ Len(done.stored) = 1
    /\ Len(ITEMS) = 2
    /\ ITEMS[1].Label = 0
    /\ ITEMS[2].Label = 1

\* every goroutine is outside the loop body and the channel holds nothing
Drained == itemChan = <<>> /\ \A w \in WorkerIds : ws[w].pc \in {"off", "recv", "done"}

\* C12 (the check guards the identity under any interleaving): with two
\* workers on the same channel, when everything sent has been processed and the
\* process has not terminated, every record whose check passed is in the
\* collection at the slot equal to its label, and no two stored records share
\* a label.
C12_CheckGuards ==
    (proc = "up" /\ Drained) =>
        /\ \A w \in WorkerIds : \A k \in 1..Len(ws[w].ok) :
              LET r == ws[w].ok[k]
              IN  /\ r.Label + 1 <= Len(ITEMS)
                  /\ ITEMS[r.Label + 1] = r
        /\ \A i, j \in 1..Len(ITEMS) : i # j => ITEMS[i].Label # ITEMS[j].Label

\* the non-nil entries of the batches ch holds, oldest batch first
RECURSIVE Queued(_)
Queued(ch) == IF ch = <<>> THEN <<>> ELSE NonNil(Head(ch)) \o Queued(Tail(ch))

C14_SnapshotIsPrefix ==
    snap.pc = "done" =>
        /\ Len(snap.Items) <= Len(ITEMS)
        /\ \A i \in 1..Len(snap.Items) :
              /\ snap.Items[i] = ITEMS[i]
              /\ snap.Items[i].Label = i - 1

RecordSteps == <<"bits", "append", "check", "geo", "inc">>

C17_RestoreOrder ==
    (LastWasLoad /\ ~last.err /\ proc = "up") =>
        LET r == RETRIEVEFUNCS(last.fn, last.file)
        IN  /\ r.restores
            /\ Vals(ITEMS) = Vals(r.store.Items)
            /\ maps = r.store.Maps
            /\ last.n = Len(ITEMS)
            /\ geoIdx = FillIndexes(ITEMS)

\* a load has replaced a collection of two records by the file's one record
C17_Witness ==
    /\ last.op = "load"
    /\ ~last.err
    /\ proc = "up"
    /\ Len(pre.items) = 2
    /\ Len(ITEMS) = 1
    /\ geoIdx = {0}

\* C18 (ingestion after a restore aborts): when the worker stores a record
\* while the collection holds N items and its counter is k, the process stays
\* up only if N = k, and then the record gets slot and label k and the counter
\* becomes k + 1; if N > k the process ends by the fatal check, if N < k by an
\* out-of-range access.  A process that has ended stores nothing further.
C18_IngestAfterRestoreAborts ==
    [][/\ (Len(hist.log') = Len(hist.log) + 1) =>
             LET N == Len(ITEMS)
                 k == worker.label
             IN  /\ proc = "up"
                 /\ proc' = IF N = k THEN "up" ELSE IF N > k THEN "fatal" ELSE "panic"
                 /\ Len(ITEMS') = N + 1
                 /\ N = k => /\ worker'.label = k + 1
                             /\ ITEMS'[k + 1].Label = k
                 /\ N # k => worker'.label = k
       /\ (proc # "up" /\ proc' # "up") => (ITEMS' = ITEMS /\ worker' = worker)]_vars

\* a worker started after a load of one item has ingested its first record,
\* and the fatal check has ended the process
C18_Witness ==
    /\ hist.restored
    /\ proc = "fatal"
    /\ worker.label = 0
    /\ Len(hist.log) = 1
    /\ Len(ITEMS) = 2

====
